---- MODULE Spec2Model ----
(***************************************************************************)
(* Feature navigation of GeoAntonio/Arcpy.                                 *)
(*                                                                         *)
(*   navigateLayerArcGISPro.py : class FeatureNavigator, global `nav`      *)
(*   navigateLayerArcMap.py    : class NavigationTool, global              *)
(*                               `navigation_tool`                         *)
(*                                                                         *)
(* A session runs one of the two scripts (they import the object models of *)
(* two different host applications), so the state holds both objects and   *)
(* `script` says which one is live; the other stays as its field           *)
(* initialisers left it.  Positions are Python's 0-based positions; a      *)
(* TLA+ sequence is 1-based, so list element p is seq[p + 1].              *)
(***************************************************************************)
EXTENDS Integers, Sequences, FiniteSets, TLC

\* ------------------------------------------------------------------ bounds
\* Longest scan of the data source that is enumerated.
MaxRows == 3
\* Largest store size for which the two cursor arithmetics are compared.
MaxRing == 6

\* ------------------------------------------------------- values and inputs
\* Python's None: the null identifier / the absent geometry of a row.
None == -1
\* An opaque, truthy geometry object (the SHAPE@ token of a row).
Shape == 1

\* The rows a feature class of the session can hold, as
\* arcpy.da.SearchCursor(datasource, ['OID@', 'SHAPE@']) yields them: three
\* identified rows, one of them without geometry, and a row whose identifier
\* is null.
Rows ==
    {[oid |-> 10, geometry |-> Shape],
     [oid |-> 20, geometry |-> Shape],
     [oid |-> 30, geometry |-> None],
     [oid |-> None, geometry |-> Shape]}

Oids == {r.oid : r \in Rows} \ {None}

\* Identifiers a caller may ask for: the dataset's, and one it never holds.
QueryOids == Oids \cup {99}

\* Positions a caller may ask for, both sides of [0, count) included.
QueryIndexes == (0 - 2)..(MaxRows + 1)

\* Field names and values a caller may filter on.
QueryFields == {"OID", "NAME"}
QueryValues == QueryOids \cup {None}

SeqsUpTo(S, n) == UNION {[1..k -> S] : k \in 0..n}

\* The non-null identifiers of a feature class are pairwise distinct.
DistinctOids(rows) ==
    \A i, j \in 1..Len(rows) :
        (i # j /\ rows[i].oid # None) => rows[i].oid # rows[j].oid

\* A scan: the rows the cursor yields, and whether it then raises instead of
\* ending (fails /\ Len(rows) = k is a scan failing after k rows; k = 0 also
\* covers a failure to open the data source).
Sources ==
    {[rows |-> r, fails |-> f] :
        r \in {s \in SeqsUpTo(Rows, MaxRows) : DistinctOids(s)}, f \in BOOLEAN}

\* What initialize_data finds in the map: no visible feature layer, or one
\* with its data source.
Layers == {<<>>} \cup {<<src>> : src \in Sources}

VARIABLES
    script,           \* which script the session runs: "ArcGISPro" or "ArcMap"
    nav,              \* the FeatureNavigator: features, current_index, oid_map
    navigation_tool,  \* the NavigationTool: feature_records, current_index
    call,             \* the last call: op, args and what it returned or raised
    out,              \* what the last call emitted: view, status, messages
    run,              \* the current run of consecutive next (or previous) calls
    example,          \* how many steps of the worked example the calls have made
    threads           \* the command each command source is running, and where

vars == <<script, nav, navigation_tool, call, out, run, example, threads>>

\* ----------------------------------------------------------------- helpers
EmptyMap == [k \in {} |-> 0]

\* dict[k] = v
MapPut(m, k, v) == [x \in (DOMAIN m) \cup {k} |-> IF x = k THEN v ELSE m[x]]

\* list[i] raises IndexError outside [-len, len); a negative i counts from
\* the end.
IndexError(list, i) == i < 0 - Len(list) \/ i >= Len(list)
At(list, i) == IF i >= 0 THEN list[i + 1] ELSE list[Len(list) + i + 1]

\* Nothing emitted.
Silent == [view |-> <<>>, status |-> <<>>, messages |-> <<>>]

Emit(a, b) ==
    [view |-> a.view \o b.view,
     status |-> a.status \o b.status,
     messages |-> a.messages \o b.messages]

Message(text) == [Silent EXCEPT !.messages = <<text>>]

\* The record _load_features stores for a row.
Feature(oid, geometry) ==
    [oid |-> oid, geometry |-> geometry, attributes |-> [OID |-> oid]]

\* dict.get(field): None when the key is absent.
Get(attributes, field) ==
    IF field \in DOMAIN attributes THEN attributes[field] ELSE None

\* The status line: "Registro i/total", "OID: oid".
StatusLine(position, total, oid) ==
    [registro |-> position + 1, total |-> total, oid |-> oid]

NoRun == [op |-> "none", start |-> 0, seen |-> <<>>]

Range(seq) == {seq[i] : i \in 1..Len(seq)}

\* The NavigationTool reports a command that did not go through by a message
\* box: the warning of next_record / previous_record on an empty store, or
\* the error box of onKeyDown.
Warned(o) ==
    \/ "No hay registros cargados" \in Range(o.messages)
    \/ "Error en manejo de teclas" \in Range(o.messages)

\* ------------------------------------------ FeatureNavigator (ArcGIS Pro)
\* __init__: the field initialisers, before _initialize_layer.
FeatureNavigator ==
    [features |-> <<>>, current_index |-> 0, oid_map |-> EmptyMap]

\* The position _load_features records for the row enumerate() numbers i,
\* given the records stored so far (the row's own record included).
LoadedPosition(i, features) == i

\* The loop of _load_features over rows i, i+1, ... of the scan.
RECURSIVE EnumerateCursor(_, _, _)
EnumerateCursor(rows, i, st) ==
    IF i >= Len(rows) THEN st
    ELSE LET oid == rows[i + 1].oid
             geometry == rows[i + 1].geometry
             features == Append(st.features, Feature(oid, geometry))
         IN  EnumerateCursor(rows, i + 1,
                IF oid # None
                THEN [features |-> features,
                      oid_map |-> MapPut(st.oid_map, oid,
                                         LoadedPosition(i, features))]
                ELSE st)

\* _load_features as a whole: the rebuilt navigator and the outcome.
LoadFeatures(n, src) ==
    LET st == EnumerateCursor(src.rows, 0,
                              [features |-> <<>>, oid_map |-> EmptyMap])
    IN  IF src.fails \/ st.features = <<>>
        THEN \* except: self.features = []  (oid_map and the cursor are kept)
             [nav |-> [features |-> <<>>,
                       current_index |-> n.current_index,
                       oid_map |-> st.oid_map],
              ret |-> "None",
              out |-> Message("Error al cargar features")]
        ELSE [nav |-> [features |-> st.features,
                       current_index |-> 0,
                       oid_map |-> st.oid_map],
              ret |-> "None",
              out |-> Silent]

\* pan_to_feature: drives the view when the geometry is truthy; an error of
\* the view is caught and printed.
ProPanToFeature(feature, viewRaises) ==
    IF feature.geometry # None
    THEN IF viewRaises
         THEN Message("Error al hacer pan")
         ELSE [Silent EXCEPT !.view = <<feature.geometry>>]
    ELSE Silent

\* _print_info
PrintInfo(n) ==
    IF n.features = <<>>
    THEN Message("No hay registros cargados")
    ELSE [Silent EXCEPT !.status =
            <<StatusLine(n.current_index, Len(n.features),
                         At(n.features, n.current_index).oid)>>]

\* The tail every move shares once current_index is assigned:
\*   feature = self.features[self.current_index]; pan; print; return True
ShowCurrent(n, viewRaises) ==
    IF IndexError(n.features, n.current_index)
    THEN [nav |-> n, ret |-> "IndexError", out |-> Silent]
    ELSE [nav |-> n, ret |-> "True",
          out |-> Emit(ProPanToFeature(At(n.features, n.current_index),
                                       viewRaises),
                       PrintInfo(n))]

Refuse(n, text) == [nav |-> n, ret |-> "False", out |-> Message(text)]

\* A next_feature that stops at the last record instead of wrapping: the
\* ring closure of C7 tells it from NextIndex.
NextIndexNoWrap(current_index, count) ==
    IF current_index + 1 < count THEN current_index + 1 ELSE current_index

\* (self.current_index + 1) % len(self.features)
NextIndex(current_index, count) == (current_index + 1) % count

\* A previous_feature that stops at the first record instead of wrapping:
\* the worked example of C17 tells it from PreviousIndex.
PreviousIndexNoWrap(current_index, count) ==
    IF current_index > 0 THEN current_index - 1 ELSE current_index

\* (self.current_index - 1) % len(self.features)   (Python: never negative)
PreviousIndex(current_index, count) == (current_index - 1) % count

next_feature(n, viewRaises) ==
    IF n.features = <<>>
    THEN Refuse(n, "No hay registros cargados")
    ELSE ShowCurrent([n EXCEPT !.current_index =
                        NextIndex(n.current_index, Len(n.features))],
                     viewRaises)

previous_feature(n, viewRaises) ==
    IF n.features = <<>>
    THEN Refuse(n, "No hay registros cargados")
    ELSE ShowCurrent([n EXCEPT !.current_index =
                        PreviousIndex(n.current_index, Len(n.features))],
                     viewRaises)

go_to_oid(n, oid, viewRaises) ==
    IF oid \notin DOMAIN n.oid_map
    THEN Refuse(n, "OID no encontrado")
    ELSE ShowCurrent([n EXCEPT !.current_index = n.oid_map[oid]], viewRaises)

\* A range test that lets index = len(self.features) through: C10 tells it
\* from OutOfRange.
OutOfRangeOffByOne(index, count) == index < 0 \/ index > count

\* index < 0 or index >= len(self.features)
OutOfRange(index, count) == index < 0 \/ index >= count

go_to_index(n, index, viewRaises) ==
    IF OutOfRange(index, Len(n.features))
    THEN Refuse(n, "Indice fuera de rango")
    ELSE ShowCurrent([n EXCEPT !.current_index = index], viewRaises)

\* filter_by_attribute: the matching positions, in scan order.
RECURSIVE FilterFrom(_, _, _, _)
FilterFrom(features, i, field, value) ==
    IF i >= Len(features) THEN <<>>
    ELSE (IF Get(features[i + 1].attributes, field) = value
          THEN <<i>> ELSE <<>>)
         \o FilterFrom(features, i + 1, field, value)

filter_by_attribute(n, field, value) == FilterFrom(n.features, 0, field, value)

jump_to_filtered(n, field, value, viewRaises) ==
    LET matches == filter_by_attribute(n, field, value)
        found == Message("registros encontrados")
    IN  IF matches # <<>>
        THEN LET r == go_to_index(n, matches[1], viewRaises)
             IN  [r EXCEPT !.out = Emit(found, r.out)]
        ELSE [nav |-> n, ret |-> "False", out |-> found]

\* get_current_info: the current record, None on an empty store.
get_current_info(n) ==
    IF n.features = <<>> THEN <<"None">>
    ELSE IF IndexError(n.features, n.current_index) THEN <<"IndexError">>
    ELSE <<"Record", At(n.features, n.current_index)>>

Min(a, b) == IF a <= b THEN a ELSE b

\* Limits a caller may give list_oids: a short one, and the default.
ListLimits == {2, 50}

\* list_oids: one line per listed position, the current one marked.
list_oids(n, limit) ==
    IF n.features = <<>>
    THEN [nav |-> n, ret |-> "None", out |-> Message("No hay registros"),
          value |-> <<>>]
    ELSE [nav |-> n, ret |-> "None",
          out |-> [Silent EXCEPT !.messages =
                      <<"OIDs disponibles">>
                      \o (IF Len(n.features) > limit
                          THEN <<"y mas">> ELSE <<>>)],
          value |-> [i \in 1..Min(limit, Len(n.features)) |->
                        [indice |-> i - 1,
                         oid |-> n.features[i].oid,
                         actual |-> (i - 1 = n.current_index)]]]

\* An export that numbers the stored attribute map itself instead of a copy
\* of it: the frame of C16 tells it from ExportRow.
ExportRowNoCopy(features, i, data) ==
    LET row == MapPut(features[i + 1].attributes, "Indice", Len(data))
    IN  [features |-> [features EXCEPT ![i + 1].attributes = row],
         data |-> Append(data, row)]

\* row = feature['attributes'].copy(); row['Indice'] = len(data);
\* data.append(row)
ExportRow(features, i, data) ==
    LET row == MapPut(features[i + 1].attributes, "Indice", Len(data))
    IN  [features |-> features, data |-> Append(data, row)]

\* The loop of export_to_dataframe over records i, i+1, ...
RECURSIVE ExportRows(_, _, _)
ExportRows(features, i, data) ==
    IF i >= Len(features) THEN [features |-> features, data |-> data]
    ELSE LET st == ExportRow(features, i, data)
         IN  ExportRows(st.features, i + 1, st.data)

export_to_dataframe(n) ==
    IF n.features = <<>>
    THEN [nav |-> n, ret |-> "DataFrame", out |-> Message("No hay registros"),
          value |-> <<>>]
    ELSE LET st == ExportRows(n.features, 0, <<>>)
         IN  [nav |-> [n EXCEPT !.features = st.features],
              ret |-> "DataFrame",
              out |-> Message("registros exportados a DataFrame"),
              value |-> st.data]

\* get_statistics: total, current position and current identifier; the
\* header is printed before the current record is indexed.
get_statistics(n) ==
    IF n.features = <<>>
    THEN [nav |-> n, ret |-> "None", out |-> Message("No hay registros"),
          value |-> <<>>]
    ELSE IF IndexError(n.features, n.current_index)
    THEN [nav |-> n, ret |-> "IndexError", out |-> Message("ESTADISTICAS"),
          value |-> <<>>]
    ELSE [nav |-> n, ret |-> "None", out |-> Message("ESTADISTICAS"),
          value |-> <<StatusLine(n.current_index, Len(n.features),
                                 At(n.features, n.current_index).oid)>>]

\* ---------------------------------------------- NavigationTool (ArcMap)
\* __init__: the field initialisers, before initialize_data.
NavigationTool == [feature_records |-> <<>>, current_index |-> 0]

\* The record load_features stores for a row (null identifiers included).
Record(row) == [oid |-> row.oid, shape |-> row.geometry]

RECURSIVE AppendRows(_, _, _)
AppendRows(rows, i, records) ==
    IF i > Len(rows) THEN records
    ELSE AppendRows(rows, i + 1, Append(records, Record(rows[i])))

\* load_features as a whole.
load_features(t, src) ==
    LET records == AppendRows(src.rows, 1, <<>>)
    IN  IF src.fails
        THEN \* except: a message box; what was appended stays
             [tool |-> [t EXCEPT !.feature_records = records],
              ret |-> "None",
              out |-> Message("Error al cargar features")]
        ELSE IF records # <<>>
        THEN [tool |-> [feature_records |-> records, current_index |-> 0],
              ret |-> "None",
              out |-> Message("Cargados registros")]
        ELSE [tool |-> [t EXCEPT !.feature_records = records],
              ret |-> "None",
              out |-> Message("No se encontraron registros")]

\* initialize_data: returns early when the map has no visible feature layer
\* (target_layer = <<>>), else loads the layer's data source (<<src>>).
initialize_data(t, target_layer) ==
    IF target_layer = <<>>
    THEN [tool |-> t, ret |-> "None",
          out |-> Message("No se encontro una capa de features visible")]
    ELSE LET r == load_features(t, target_layer[1])
         IN  [r EXCEPT !.out = Emit(r.out, Message("Script inicializado"))]

\* pan_to_feature: view and status are both inside `if feature_shape:`, and
\* an error of the view is caught before the status is shown.
MapPanToFeature(t, feature_shape, viewRaises) ==
    IF feature_shape # None
    THEN IF viewRaises
         THEN Message("Error al hacer pan")
         ELSE [Silent EXCEPT
                 !.view = <<feature_shape>>,
                 !.status = <<StatusLine(t.current_index,
                                Len(t.feature_records),
                                At(t.feature_records, t.current_index).oid)>>]
    ELSE Silent

\* current_feature = self.feature_records[self.current_index]; pan
MapShowCurrent(t, viewRaises) ==
    IF IndexError(t.feature_records, t.current_index)
    THEN [tool |-> t, ret |-> "IndexError", out |-> Silent]
    ELSE [tool |-> t, ret |-> "None",
          out |-> MapPanToFeature(t,
                      At(t.feature_records, t.current_index).shape,
                      viewRaises)]

MapRefuse(t) ==
    [tool |-> t, ret |-> "None", out |-> Message("No hay registros cargados")]

\* A next_record that stops at the last record instead of wrapping: the
\* agreement of C19 tells it from NextRecordIndex.
NextRecordIndexNoWrap(current_index, count) ==
    IF current_index < count - 1 THEN current_index + 1 ELSE current_index

\* if current_index < len - 1: current_index += 1   else: current_index = 0
NextRecordIndex(current_index, count) ==
    IF current_index < count - 1 THEN current_index + 1 ELSE 0

\* A previous_record that stops at the first record instead of wrapping: C8
\* tells it from PreviousRecordIndex.
PreviousRecordIndexNoWrap(current_index, count) ==
    IF current_index > 0 THEN current_index - 1 ELSE 0

\* if current_index > 0: current_index -= 1   else: current_index = len - 1
PreviousRecordIndex(current_index, count) ==
    IF current_index > 0 THEN current_index - 1 ELSE count - 1

next_record(t, viewRaises) ==
    IF t.feature_records = <<>>
    THEN MapRefuse(t)
    ELSE MapShowCurrent([t EXCEPT !.current_index =
                           NextRecordIndex(t.current_index,
                                           Len(t.feature_records))],
                        viewRaises)

previous_record(t, viewRaises) ==
    IF t.feature_records = <<>>
    THEN MapRefuse(t)
    ELSE MapShowCurrent([t EXCEPT !.current_index =
                           PreviousRecordIndex(t.current_index,
                                               Len(t.feature_records))],
                        viewRaises)

\* onKeyDown: dispatch on the key; an exception of the handler is caught and
\* shown in a message box (the state it left stays).
onKeyDown(t, key, target_layer, viewRaises) ==
    LET r == IF key = "n" THEN next_record(t, viewRaises)
             ELSE IF key = "b" THEN previous_record(t, viewRaises)
             ELSE IF key = "r" THEN initialize_data(t, target_layer)
             ELSE [tool |-> t, ret |-> "None", out |-> Silent]
    IN  IF r.ret = "IndexError"
        THEN [tool |-> r.tool, ret |-> "None",
              out |-> Emit(r.out, Message("Error en manejo de teclas"))]
        ELSE r

\* ------------------------------------------------------------- the session
Pro == "ArcGISPro"
ArcMap == "ArcMap"

\* The run of consecutive successful next (or previous) calls the last call
\* belongs to: the cursor it started from and the cursor after each call.  A
\* run that has gone once round the ring starts afresh.
Advance(r, op, moved, from, to, count) ==
    IF ~moved THEN NoRun
    ELSE IF r.op = op /\ Len(r.seen) < count
    THEN [r EXCEPT !.seen = Append(@, to)]
    ELSE [op |-> op, start |-> from, seen |-> <<to>>]

\* The worked example: a feature class whose scan yields the identifiers
\* 10, 20, 30, and the calls made on the navigator loaded from it.
ExampleSource ==
    [rows |-> <<[oid |-> 10, geometry |-> Shape],
                [oid |-> 20, geometry |-> Shape],
                [oid |-> 30, geometry |-> None]>>,
     fails |-> FALSE]

ExampleCommands ==
    <<[op |-> "get_current_info", args |-> <<>>],
      [op |-> "next_feature", args |-> <<>>],
      [op |-> "next_feature", args |-> <<>>],
      [op |-> "next_feature", args |-> <<>>],
      [op |-> "previous_feature", args |-> <<>>],
      [op |-> "go_to_oid", args |-> <<20>>],
      [op |-> "go_to_oid", args |-> <<99>>],
      [op |-> "filter_by_attribute", args |-> <<"OID", 30>>],
      [op |-> "jump_to_filtered", args |-> <<"OID", 99>>]>>

\* The step of the worked example the session is at after the call op(args),
\* having been at step k: 1 once the example's source is loaded, k + 1 after
\* the k-th call of the example made in its turn, 0 off the example.
ExampleStep(k, op, args) ==
    IF op \in {"__init__", "_load_features"}
    THEN IF args = <<ExampleSource>> THEN 1 ELSE 0
    ELSE IF /\ k >= 1
            /\ k <= Len(ExampleCommands)
            /\ op = ExampleCommands[k].op
            /\ args = ExampleCommands[k].args
    THEN k + 1
    ELSE 0

\* The command sources of a session, and a source that runs no command.
Threads == {1, 2}
Idle ==
    [pc |-> "idle", op |-> "none", tmp |-> 0, feature |-> <<>>,
     shown |-> <<>>, ret |-> "None"]

\* A call of the FeatureNavigator took effect as r says.
ProStep(op, args, r, kind) ==
    /\ script = Pro
    /\ nav' = r.nav
    /\ call' = [op |-> op, args |-> args, ret |-> r.ret, value |-> <<>>]
    /\ out' = r.out
    /\ run' = Advance(run, kind, kind # "none" /\ r.ret = "True",
                      nav.current_index, r.nav.current_index,
                      Len(r.nav.features))
    /\ example' = ExampleStep(example, op, args)
    /\ UNCHANGED <<script, navigation_tool, threads>>

\* A query of the FeatureNavigator returned r.value and left the navigator
\* as r says.
ProQuery(op, args, r) ==
    /\ script = Pro
    /\ nav' = r.nav
    /\ call' = [op |-> op, args |-> args, ret |-> r.ret, value |-> r.value]
    /\ out' = r.out
    /\ run' = NoRun
    /\ example' = ExampleStep(example, op, args)
    /\ UNCHANGED <<script, navigation_tool, threads>>

\* A call of the NavigationTool took effect as r says.
MapStep(op, args, r, kind) ==
    /\ script = ArcMap
    /\ navigation_tool' = r.tool
    /\ call' = [op |-> op, args |-> args, ret |-> r.ret, value |-> <<>>]
    /\ out' = r.out
    /\ run' = Advance(run, kind,
                      kind # "none" /\ r.ret = "None" /\ ~Warned(r.out),
                      navigation_tool.current_index, r.tool.current_index,
                      Len(r.tool.feature_records))
    /\ UNCHANGED <<script, nav, example, threads>>

\* The state once the script has run: the global instance is constructed,
\* and its constructor has made the first load.
Init ==
    /\ \/ \E src \in Sources :
              LET p == LoadFeatures(FeatureNavigator, src)
              IN  /\ script = Pro
                  /\ nav = p.nav
                  /\ navigation_tool = NavigationTool
                  /\ call = [op |-> "__init__", args |-> <<src>>,
                             ret |-> "None", value |-> <<>>]
                  /\ out = p.out
                  /\ example = ExampleStep(0, "__init__", <<src>>)
       \/ \E target_layer \in Layers :
              LET m == initialize_data(NavigationTool, target_layer)
              IN  /\ script = ArcMap
                  /\ nav = FeatureNavigator
                  /\ navigation_tool = m.tool
                  /\ call = [op |-> "__init__", args |-> target_layer,
                             ret |-> "None", value |-> <<>>]
                  /\ out = m.out
                  /\ example = 0
    /\ run = NoRun
    /\ threads = [t \in Threads |-> Idle]

\* nav._load_features()
Load ==
    \E src \in Sources :
        ProStep("_load_features", <<src>>, LoadFeatures(nav, src), "none")

\* nav.next_feature()
Next_feature ==
    \E viewRaises \in BOOLEAN :
        ProStep("next_feature", <<>>, next_feature(nav, viewRaises), "next")

\* nav.previous_feature()
Previous_feature ==
    \E viewRaises \in BOOLEAN :
        ProStep("previous_feature", <<>>, previous_feature(nav, viewRaises),
                "previous")

\* nav.go_to_oid(oid)
Go_to_oid ==
    \E oid \in QueryOids, viewRaises \in BOOLEAN :
        ProStep("go_to_oid", <<oid>>, go_to_oid(nav, oid, viewRaises), "none")

\* nav.go_to_index(index)
Go_to_index ==
    \E index \in QueryIndexes, viewRaises \in BOOLEAN :
        ProStep("go_to_index", <<index>>, go_to_index(nav, index, viewRaises),
                "none")

\* nav.jump_to_filtered(field, value)
Jump_to_filtered ==
    \E field \in QueryFields, value \in QueryValues, viewRaises \in BOOLEAN :
        ProStep("jump_to_filtered", <<field, value>>,
                jump_to_filtered(nav, field, value, viewRaises), "none")

\* nav.get_current_info()
Get_current_info ==
    ProQuery("get_current_info", <<>>,
             [nav |-> nav, ret |-> get_current_info(nav)[1], out |-> Silent,
              value |-> get_current_info(nav)])

\* nav.filter_by_attribute(field, value)
Filter_by_attribute ==
    \E field \in QueryFields, value \in QueryValues :
        ProQuery("filter_by_attribute", <<field, value>>,
                 [nav |-> nav, ret |-> "List",
                  out |-> Message("registros encontrados"),
                  value |-> filter_by_attribute(nav, field, value)])

\* nav.list_oids(limit)
List_oids ==
    \E limit \in ListLimits :
        ProQuery("list_oids", <<limit>>, list_oids(nav, limit))

\* nav.export_to_dataframe()
Export_to_dataframe ==
    ProQuery("export_to_dataframe", <<>>, export_to_dataframe(nav))

\* nav.get_statistics()
Get_statistics == ProQuery("get_statistics", <<>>, get_statistics(nav))

\* reload_data(), and the key 'r' of onKeyDown: both are
\* navigation_tool.initialize_data(), which catches its own exceptions, so
\* the handler's try/except adds nothing to it.
Reload_data ==
    \E target_layer \in Layers :
        MapStep("initialize_data", target_layer,
                onKeyDown(navigation_tool, "r", target_layer, FALSE), "none")

\* next_feature(): navigation_tool.next_record()
Next_record ==
    \E viewRaises \in BOOLEAN :
        MapStep("next_record", <<>>, next_record(navigation_tool, viewRaises),
                "next")

\* previous_feature(): navigation_tool.previous_record()
Previous_record ==
    \E viewRaises \in BOOLEAN :
        MapStep("previous_record", <<>>,
                previous_record(navigation_tool, viewRaises), "previous")

\* onKeyDown(event) for the keys 'n' and 'b' and for an unbound key ('r' is
\* Reload_data).
OnKeyDown ==
    \/ \E key \in {"n", "b"}, viewRaises \in BOOLEAN :
          MapStep("onKeyDown", <<key>>,
                  onKeyDown(navigation_tool, key, <<>>, viewRaises),
                  IF key = "n" THEN "next" ELSE "previous")
    \/ MapStep("onKeyDown", <<"x">>,
               onKeyDown(navigation_tool, "x", <<>>, FALSE), "none")

Next ==
    \/ Load
    \/ Next_feature
    \/ Previous_feature
    \/ Go_to_oid
    \/ Go_to_index
    \/ Jump_to_filtered
    \/ Get_current_info
    \/ Filter_by_attribute
    \/ List_oids
    \/ Export_to_dataframe
    \/ Get_statistics
    \/ Reload_data
    \/ Next_record
    \/ Previous_record
    \/ OnKeyDown

Spec == Init /\ [][Next]_vars

\* ------------------------------------- two command sources, one navigator
\* next_feature / previous_feature of the global nav, called by two command
\* sources at once.  The methods take no lock, so the statements of the two
\* calls interleave; each action below is one statement of the method body
\* (the assignment of current_index is its read and its write).

\* What no statement of a command touches.
Rest == <<script, navigation_tool, call, run, example>>

\* A command source calls nav.next_feature() or nav.previous_feature().
Begin(t) ==
    /\ threads[t].pc = "idle"
    /\ \E op \in {"next_feature", "previous_feature"} :
          threads' = [threads EXCEPT ![t].op = op, ![t].pc = "check"]
    /\ UNCHANGED <<nav, out, Rest>>

\* if not self.features: print(...); return False
CheckLoaded(t) ==
    /\ threads[t].pc = "check"
    /\ IF nav.features = <<>>
       THEN /\ threads' = [threads EXCEPT ![t].pc = "done", ![t].ret = "False"]
            /\ out' = Emit(out, Message("No hay registros cargados"))
       ELSE /\ threads' = [threads EXCEPT ![t].pc = "read"]
            /\ out' = out
    /\ UNCHANGED <<nav, Rest>>

\* the right-hand side (self.current_index +/- 1) % len(self.features)
ReadIndex(t) ==
    /\ threads[t].pc = "read"
    /\ threads' =
          [threads EXCEPT
             ![t].pc = "write",
             ![t].tmp =
                 IF threads[t].op = "next_feature"
                 THEN NextIndex(nav.current_index, Len(nav.features))
                 ELSE PreviousIndex(nav.current_index, Len(nav.features))]
    /\ UNCHANGED <<nav, out, Rest>>

\* self.current_index = ...
WriteIndex(t) ==
    /\ threads[t].pc = "write"
    /\ nav' = [nav EXCEPT !.current_index = threads[t].tmp]
    /\ threads' = [threads EXCEPT ![t].pc = "fetch"]
    /\ UNCHANGED <<out, Rest>>

\* feature = self.features[self.current_index]
FetchFeature(t) ==
    /\ threads[t].pc = "fetch"
    /\ threads' = [threads EXCEPT
                     ![t].pc = "pan",
                     ![t].feature = At(nav.features, nav.current_index)]
    /\ UNCHANGED <<nav, out, Rest>>

\* self.pan_to_feature(feature)
PanFeature(t) ==
    /\ threads[t].pc = "pan"
    /\ \E viewRaises \in BOOLEAN :
          out' = Emit(out, ProPanToFeature(threads[t].feature, viewRaises))
    /\ threads' = [threads EXCEPT ![t].pc = "print"]
    /\ UNCHANGED <<nav, Rest>>

\* self._print_info(); return True
PrintAndReturn(t) ==
    /\ threads[t].pc = "print"
    /\ out' = Emit(out, PrintInfo(nav))
    /\ threads' = [threads EXCEPT
                     ![t].pc = "done",
                     ![t].shown = PrintInfo(nav).status,
                     ![t].ret = "True"]
    /\ UNCHANGED <<nav, Rest>>

\* The navigator as its constructor loaded it, and two idle command sources.
InitThreads ==
    /\ \E src \in Sources :
          LET p == LoadFeatures(FeatureNavigator, src)
          IN  /\ nav = p.nav
              /\ call = [op |-> "__init__", args |-> <<src>>,
                         ret |-> "None", value |-> <<>>]
              /\ out = p.out
    /\ script = Pro
    /\ navigation_tool = NavigationTool
    /\ run = NoRun
    /\ example = 0
    /\ threads = [t \in Threads |-> Idle]

NextThreads ==
    \/ \E t \in Threads : Begin(t)
    \/ \E t \in Threads : CheckLoaded(t)
    \/ \E t \in Threads : ReadIndex(t)
    \/ \E t \in Threads : WriteIndex(t)
    \/ \E t \in Threads : FetchFeature(t)
    \/ \E t \in Threads : PanFeature(t)
    \/ \E t \in Threads : PrintAndReturn(t)

SpecThreads == InitThreads /\ [][NextThreads]_vars

\* ------------------------------------- the two implementations side by side
\* Both objects are loaded from the same feature class and given the same
\* next / previous commands.
Both == "both"

\* Feature classes both loads store whole: the scan ends, and every row has
\* an identifier.
TwinSources ==
    {src \in Sources :
        /\ ~src.fails
        /\ src.rows # <<>>
        /\ \A i \in 1..Len(src.rows) : src.rows[i].oid # None}

\* The same call took effect on the FeatureNavigator as p says and on the
\* NavigationTool as m says.
TwinStep(op, args, p, m, kind) ==
    /\ script = Both
    /\ nav' = p.nav
    /\ navigation_tool' = m.tool
    /\ call' = [op |-> op, args |-> args, ret |-> p.ret, value |-> <<m.ret>>]
    /\ out' = Emit(p.out, m.out)
    /\ run' = Advance(run, kind, kind # "none" /\ p.ret = "True",
                      nav.current_index, p.nav.current_index,
                      Len(p.nav.features))
    /\ UNCHANGED <<script, example, threads>>

InitTwin ==
    /\ \E src \in TwinSources :
          LET p == LoadFeatures(FeatureNavigator, src)
              m == initialize_data(NavigationTool, <<src>>)
          IN  /\ nav = p.nav
              /\ navigation_tool = m.tool
              /\ call = [op |-> "__init__", args |-> <<src>>,
                         ret |-> p.ret, value |-> <<m.ret>>]
              /\ out = Emit(p.out, m.out)
    /\ script = Both
    /\ run = NoRun
    /\ example = 0
    /\ threads = [t \in Threads |-> Idle]

\* nav._load_features() and reload_data() on the same feature class
TwinLoad ==
    \E src \in TwinSources :
        TwinStep("load", <<src>>, LoadFeatures(nav, src),
                 initialize_data(navigation_tool, <<src>>), "none")

\* nav.next_feature() and navigation_tool.next_record()
TwinNext ==
    \E proRaises \in BOOLEAN, mapRaises \in BOOLEAN :
        TwinStep("next", <<>>, next_feature(nav, proRaises),
                 next_record(navigation_tool, mapRaises), "next")

\* nav.previous_feature() and navigation_tool.previous_record()
TwinPrevious ==
    \E proRaises \in BOOLEAN, mapRaises \in BOOLEAN :
        TwinStep("previous", <<>>, previous_feature(nav, proRaises),
                 previous_record(navigation_tool, mapRaises), "previous")

NextTwin ==
    \/ TwinLoad
    \/ TwinNext
    \/ TwinPrevious

SpecTwin == InitTwin /\ [][NextTwin]_vars

\* --------------------------------------------------- reading the last call
Count == Len(nav.features)
Positions == 0..(Count - 1)

\* The call c was a (re)load that scanned a data source.
IsLoad(c) ==
    c.op \in {"__init__", "_load_features", "initialize_data"} /\ c.args # <<>>
SourceOf(c) == c.args[1]

\* The call c was a navigation command of the live object.
ProNavOps ==
    {"next_feature", "previous_feature", "go_to_oid", "go_to_index",
     "jump_to_filtered"}
IsMapNext(c) ==
    c.op = "next_record" \/ (c.op = "onKeyDown" /\ c.args = <<"n">>)
IsMapPrevious(c) ==
    c.op = "previous_record" \/ (c.op = "onKeyDown" /\ c.args = <<"b">>)
IsNav(s, c) ==
    IF s = Pro THEN c.op \in ProNavOps ELSE IsMapNext(c) \/ IsMapPrevious(c)
IsNext(s, c) == IF s = Pro THEN c.op = "next_feature" ELSE IsMapNext(c)
IsPrevious(s, c) ==
    IF s = Pro THEN c.op = "previous_feature" ELSE IsMapPrevious(c)

\* The navigation command c, which emitted o, succeeded: FeatureNavigator
\* returns True; NavigationTool neither warns of an empty store nor raises.
Succeeded(s, c, o) ==
    IF s = Pro THEN c.ret = "True"
    ELSE c.ret = "None" /\ ~Warned(o)

\* The load c, which emitted o, succeeded.
LoadSucceeded(s, c, o) ==
    /\ IsLoad(c)
    /\ IF s = Pro THEN o.messages = <<>>
       ELSE "Cargados registros" \in Range(o.messages)

\* The live object's cursor and size.
Cursor(s, n, t) == IF s = Pro THEN n.current_index ELSE t.current_index
Size(s, n, t) ==
    IF s = Pro THEN Len(n.features) ELSE Len(t.feature_records)

\* ------------------------------------------------------------------ claims

\* C1: after every successful load by _load_features the identifier index is
\* exactly the inverse of the record sequence: oid_map[features[p].oid] = p
\* for every position p, and every key k of oid_map has a position in range
\* whose record has identifier k.
C1_IndexIsInverse ==
    (script = Pro /\ LoadSucceeded(script, call, out)) =>
        /\ \A p \in Positions :
              /\ At(nav.features, p).oid \in DOMAIN nav.oid_map
              /\ nav.oid_map[At(nav.features, p).oid] = p
        /\ \A k \in DOMAIN nav.oid_map :
              /\ nav.oid_map[k] \in Positions
              /\ At(nav.features, nav.oid_map[k]).oid = k

\* C2: in every reachable state of the FeatureNavigator either the store is
\* empty or the cursor is a position of it.
C2_CursorInRange ==
    script = Pro => (Count = 0 \/ nav.current_index \in Positions)

\* C3: a load whose scan fails leaves the store empty, in both
\* implementations: no record in the sequence and no identifier resolved by
\* the index.
C3_FailedLoadLeavesEmpty ==
    (IsLoad(call) /\ SourceOf(call).fails) =>
        IF script = Pro
        THEN nav.features = <<>> /\ DOMAIN nav.oid_map = {}
        ELSE navigation_tool.feature_records = <<>>

\* C4: for every loaded record r at position p, go_to_oid(r.oid) returns True
\* and leaves the cursor on p, so that get_current_info() is r.
C4_GoToOidFindsRecord ==
    (script = Pro /\ call.op = "go_to_oid") =>
        \A p \in Positions :
            At(nav.features, p).oid = call.args[1] =>
                /\ call.ret = "True"
                /\ nav.current_index = p
                /\ get_current_info(nav) = <<"Record", At(nav.features, p)>>

\* C5: every navigation command on an empty store reports failure and leaves
\* the cursor, the record sequence and the identifier index as they were.
C5_EmptyStoreRefuses ==
    [][(IsNav(script, call') /\ Size(script, nav, navigation_tool) = 0) =>
          /\ ~Succeeded(script, call', out')
          /\ nav' = nav
          /\ navigation_tool' = navigation_tool]_vars

\* C6: a navigation command that does not succeed (it returns False or ends
\* in an error) leaves the cursor, the record sequence and the identifier
\* index identical to their values before the call.
C6_FailureHasNoEffect ==
    [][(IsNav(script, call') /\ ~Succeeded(script, call', out')) =>
          /\ nav' = nav
          /\ navigation_tool' = navigation_tool]_vars

\* The cursor before the last call of the current run.
RunBefore ==
    IF Len(run.seen) = 1 THEN run.start ELSE run.seen[Len(run.seen) - 1]

\* C7: on a non-empty store of size N with the cursor on a position p of it,
\* next() succeeds and leaves the cursor on a position, and N calls of next()
\* in a row bring the cursor back to p after visiting each of the N positions
\* exactly once; the same for previous().  Both implementations.
C7_RingClosure ==
    /\ [](LET N == Size(script, nav, navigation_tool)
          IN  (/\ run.op \in {"next", "previous"}
               /\ Len(run.seen) = N
               /\ run.start \in 0..(N - 1)) =>
                  /\ run.seen[N] = run.start
                  /\ Range(run.seen) = 0..(N - 1))
    /\ [][LET N == Size(script, nav, navigation_tool)
          IN  (/\ IsNext(script, call') \/ IsPrevious(script, call')
               /\ N > 0
               /\ Cursor(script, nav, navigation_tool) \in 0..(N - 1)) =>
                  /\ Succeeded(script, call', out')
                  /\ Cursor(script, nav', navigation_tool') \in 0..(N - 1)
                  /\ run'.op = (IF IsNext(script, call')
                                THEN "next" ELSE "previous")]_vars

\* C7 witness: three calls of next() on a store of three records, started
\* from position 1, have gone once round the ring.
C7_Witness ==
    /\ run.op = "next"
    /\ run.start = 1
    /\ Len(run.seen) = 3
    /\ Size(script, nav, navigation_tool) = 3
    /\ Cursor(script, nav, navigation_tool) = 1

\* C8: on a non-empty store, from any position p, next() then previous()
\* leaves the cursor on p, and so does previous() then next(), the wrap
\* boundaries and the store of size 1 included.  Both implementations.
C8_NextPreviousInverse ==
    [][LET N == Size(script, nav, navigation_tool)
       IN  (/\ \/ run.op = "next" /\ IsPrevious(script, call')
               \/ run.op = "previous" /\ IsNext(script, call')
            /\ RunBefore \in 0..(N - 1)) =>
               /\ Succeeded(script, call', out')
               /\ Cursor(script, nav', navigation_tool') = RunBefore]_vars

\* C8 witness: previous() from position 0 wrapped to the last record of a
\* store of three, and next() has brought the cursor back to 0.
C8_Witness ==
    /\ run.op = "next"
    /\ Len(run.seen) = 1
    /\ run.start = 2
    /\ Size(script, nav, navigation_tool) = 3
    /\ Cursor(script, nav, navigation_tool) = 0
    /\ script = ArcMap

\* C9: go_to_oid(id) for an identifier that no record of the loaded sequence
\* has returns False and leaves the cursor unchanged.
C9_UnknownOidRefused ==
    [][(/\ script = Pro
        /\ call'.op = "go_to_oid"
        /\ \A p \in Positions : At(nav.features, p).oid # call'.args[1]) =>
           /\ call'.ret = "False"
           /\ nav'.current_index = nav.current_index]_vars

\* C10: go_to_index(i) returns True exactly when 0 <= i < count, and then the
\* cursor is i; otherwise it returns False and the cursor is unchanged.
C10_GoToIndexIffInRange ==
    [][(script = Pro /\ call'.op = "go_to_index") =>
          LET i == call'.args[1]
          IN  /\ call'.ret = "True" <=> i \in Positions
              /\ i \in Positions => nav'.current_index = i
              /\ i \notin Positions =>
                    /\ call'.ret = "False"
                    /\ nav'.current_index = nav.current_index]_vars

\* C10 witness: go_to_index moved the cursor to the last of several records.
C10_Witness ==
    /\ call.op = "go_to_index"
    /\ call.ret = "True"
    /\ Count >= 2
    /\ call.args[1] = Count - 1
    /\ nav.current_index = Count - 1

\* ------------------------------------------- reading a load and its source
\* The identifiers of a sequence of rows or records, in order.
OidsOf(seq) == [i \in 1..Len(seq) |-> seq[i].oid]

\* The valid rows of a scan: those whose identifier is not null.
ValidRows(rows) == SelectSeq(rows, LAMBDA r : r.oid # None)

\* The records the live object stores.
Stored == IF script = Pro THEN nav.features ELSE navigation_tool.feature_records

\* The call c was a reload (a load after the constructor's).
IsReload(c) == IsLoad(c) /\ c.op # "__init__"

\* C11: a reload replaces the collection and resets the cursor.  After a
\* reload (whose scan ran to its end) that stored at least one record, the
\* store holds the valid rows of the new source, in order and nothing of the
\* old one, and the cursor is 0; after a reload whose source has no valid
\* row, the store is empty and there is no current record.
C11_ReloadReplacesAndResets ==
    (IsReload(call) /\ ~SourceOf(call).fails) =>
        LET rows == SourceOf(call).rows
        IN  /\ Stored # <<>> =>
                 /\ ValidRows(Stored) # <<>>
                 /\ OidsOf(ValidRows(Stored)) = OidsOf(ValidRows(rows))
                 /\ Len(Stored) <= Len(rows)
                 /\ Cursor(script, nav, navigation_tool) = 0
            /\ ValidRows(rows) = <<>> =>
                 /\ Stored = <<>>
                 /\ script = Pro => get_current_info(nav) = <<"None">>

\* The positions of n whose record has the field, with that value.
Matching(n, field, value) ==
    {p \in 0..(Len(n.features) - 1) :
        /\ field \in DOMAIN At(n.features, p).attributes
        /\ At(n.features, p).attributes[field] = value}

StrictlyAscending(seq) ==
    \A i, j \in 1..Len(seq) : i < j => seq[i] < seq[j]

\* C12: filter_by_attribute(field, value) returns exactly the positions whose
\* record has the field with that value, in strictly ascending order; a
\* record that lacks the field is never returned and raises nothing; the
\* call changes neither the cursor nor the store.
C12_FilterReturnsMatches ==
    [][call'.op = "filter_by_attribute" =>
          /\ call'.ret = "List"
          /\ Range(call'.value) = Matching(nav, call'.args[1], call'.args[2])
          /\ StrictlyAscending(call'.value)
          /\ nav' = nav]_vars

\* C13: jump_to_filtered(field, value) succeeds and puts the cursor on the
\* smallest matching position when a record matches; when none matches (an
\* empty store included) it returns False and leaves the cursor where it was.
C13_JumpToFirstMatch ==
    [][call'.op = "jump_to_filtered" =>
          LET matching == Matching(nav, call'.args[1], call'.args[2])
          IN  /\ matching # {} =>
                   /\ call'.ret = "True"
                   /\ nav'.current_index \in matching
                   /\ \A p \in matching : nav'.current_index <= p
              /\ matching = {} =>
                   /\ call'.ret = "False"
                   /\ nav'.current_index = nav.current_index]_vars

\* C14: after a successful load of either implementation the stored
\* identifiers are those of the source's rows whose identifier is not null,
\* in scan order (null-identifier rows skipped, nothing else dropped,
\* duplicated or reordered), and every stored record has an attribute map
\* that holds the identifier field with the record's own identifier.
C14_StoreIsValidSubsequence ==
    LoadSucceeded(script, call, out) =>
        /\ OidsOf(Stored) = OidsOf(ValidRows(SourceOf(call).rows))
        /\ \A i \in 1..Len(Stored) :
              /\ "attributes" \in DOMAIN Stored[i]
              /\ "OID" \in DOMAIN Stored[i].attributes
              /\ Stored[i].attributes["OID"] = Stored[i].oid

\* The geometry of a stored record of either implementation.
GeometryOf(s, record) == IF s = Pro THEN record.geometry ELSE record.shape

\* C15: every successful move reports to the status sink exactly once, and
\* what it reports is the position and the identifier of the record at the
\* updated cursor; this holds also when that record has no geometry, in
\* which case the view is not driven.
C15_MoveReportsStatusOnce ==
    (IsNav(script, call) /\ Succeeded(script, call, out)) =>
        LET cursor == Cursor(script, nav, navigation_tool)
            current == At(Stored, cursor)
        IN  /\ out.status = <<StatusLine(cursor, Len(Stored), current.oid)>>
            /\ GeometryOf(script, current) = None => out.view = <<>>

\* The read-only operations of the FeatureNavigator.
ProQueryOps ==
    {"get_current_info", "filter_by_attribute", "list_oids",
     "export_to_dataframe", "get_statistics"}

\* C16: the record store is mutated only by load.  Every navigation command
\* and every read-only operation of the FeatureNavigator leaves the record
\* sequence and the identifier index as they were, and the read-only
\* operations leave the cursor as it was too.
C16_StoreMutatedOnlyByLoad ==
    [][/\ call'.op \in ProNavOps \cup ProQueryOps =>
             /\ nav'.features = nav.features
             /\ nav'.oid_map = nav.oid_map
       /\ call'.op \in ProQueryOps =>
             nav'.current_index = nav.current_index
       /\ (script = Pro /\ nav'.features # nav.features) =>
             call'.op = "_load_features"]_vars

\* An export has numbered the rows of a store of several records, with the
\* cursor off the first one.
C16_Witness ==
    /\ call.op = "export_to_dataframe"
    /\ Len(call.value) = Count
    /\ Count >= 2
    /\ nav.current_index = 1
    /\ \A i \in 1..Count : call.value[i]["Indice"] = i - 1

\* The identifier the cursor is on.
CurrentOid == At(nav.features, nav.current_index).oid

\* C17: on a store loaded from a source that yields the identifiers 10, 20,
\* 30, the calls current, next, next, next, previous, go_to_oid(20),
\* go_to_oid(99) leave the cursor on 10, 20, 30, 10, 30, 20, 20;
\* go_to_oid(20) lands on position 1 and go_to_oid(99) fails; filtering the
\* identifier field for 30 then yields exactly [2], and jump_to_filtered on
\* the identifier field for 99 fails with the cursor still on 20.
C17_WorkedExample ==
    example >= 1 =>
        /\ script = Pro
        /\ OidsOf(nav.features) = <<10, 20, 30>>
        /\ CurrentOid = <<10, 10, 20, 30, 10, 30, 20, 20, 20, 20>>[example]
        /\ example = 2 => call.value = <<"Record", nav.features[1]>>
        /\ example \in 3..6 => call.ret = "True"
        /\ example = 7 => call.ret = "True" /\ nav.current_index = 1
        /\ example = 8 => call.ret = "False"
        /\ example = 9 => call.value = <<2>>
        /\ example = 10 => call.ret = "False"

\* The worked example has been run to its last call.
C17_Witness ==
    /\ example = Len(ExampleCommands) + 1
    /\ call.op = "jump_to_filtered"
    /\ call.args = <<"OID", 99>>

\* The cursor after the command op from cursor i on a store of count records.
After(op, i, count) ==
    IF op = "next_feature" THEN NextIndex(i, count)
    ELSE PreviousIndex(i, count)

\* C18: commands are serialized.  When two command sources call navigation
\* operations on the same navigator, the status a command reports is the
\* position and the identifier that command itself set, and once both have
\* returned the cursor is what the two commands give when applied one after
\* the other, in one order or the other, from the cursor they started at.
C18_CommandsSerialized ==
    /\ \A t \in Threads :
          (threads[t].pc = "done" /\ threads[t].ret = "True") =>
              threads[t].shown =
                  <<StatusLine(threads[t].tmp, Count,
                               At(nav.features, threads[t].tmp).oid)>>
    /\ (\A t \in Threads : threads[t].pc = "done" /\ threads[t].ret = "True")
          => \/ nav.current_index =
                    After(threads[2].op, After(threads[1].op, 0, Count), Count)
             \/ nav.current_index =
                    After(threads[1].op, After(threads[2].op, 0, Count), Count)

\* C19: the two implementations of the cyclic traversal agree.  For every
\* store size N >= 1 and every cursor i in [0, N) the branches of
\* next_record give the cursor (i + 1) mod N of next_feature and the
\* branches of previous_record give the cursor (i - 1) mod N of
\* previous_feature; hence the same next / previous commands run on both
\* objects from the same start keep the two cursors equal.
C19_TraversalsAgree ==
    /\ \A N \in 1..MaxRing : \A i \in 0..(N - 1) :
          /\ NextRecordIndex(i, N) = NextIndex(i, N)
          /\ PreviousRecordIndex(i, N) = PreviousIndex(i, N)
    /\ script = Both =>
          /\ Len(navigation_tool.feature_records) = Len(nav.features)
          /\ navigation_tool.current_index = nav.current_index

\* Both objects have gone once round a store of the largest size by next
\* commands and are back on the first record.
C19_Witness ==
    /\ script = Both
    /\ Count = MaxRows
    /\ run.op = "next"
    /\ Len(run.seen) = Count
    /\ run.start = 0
    /\ nav.current_index = 0
    /\ navigation_tool.current_index = 0

\* C20: in the NavigationTool, after any reloads (successful, of an empty
\* source, or failing in mid-scan) and next_record / previous_record calls,
\* whenever feature_records is not empty the cursor is a position of it.
C20_MapCursorInRange ==
    (script = ArcMap /\ navigation_tool.feature_records # <<>>) =>
        /\ 0 <= navigation_tool.current_index
        /\ navigation_tool.current_index < Len(navigation_tool.feature_records)

====
